---- MODULE Spec2Model ----
(***************************************************************************)
(* The UltiSnips plugin of src/main.ts: the snippet-file parser            *)
(* (parseSnippets with its helper handleSnippetOrGlobal) and the plugin's  *)
(* load path (onload, loadSnippets, the readdir callback, the settings     *)
(* tab's onChange handler).                                                *)
(*                                                                         *)
(* A JavaScript string is a sequence of one-character strings, so that     *)
(* split, trim, substring, lastIndexOf and endsWith are computed as the    *)
(* code computes them.  A value that may be null or undefined is Null      *)
(* (the empty tuple) or Some(v) (the one-element tuple).                   *)
(***************************************************************************)
EXTENDS Integers, Sequences, FiniteSets, TLC

VARIABLES
    filename,   \* parseSnippets: the path argument
    raw,        \* parseSnippets: the file text
    gen,        \* parseSnippets: the generator's frame (locals, position, outcome)
    settings,   \* UltiSnips.settings
    snippets,   \* UltiSnips.snippets
    onloadPc,   \* position of the async onload
    settingTab, \* whether addSettingTab has run
    readdirs,   \* readdir calls whose callback has not run yet
    saves,      \* number of onChange calls waiting for saveSettings
    calls,      \* every loadSnippets call so far: what it listed, built, reported
    uncaught    \* errors thrown out of readdir callbacks

parserVars == <<filename, raw, gen>>
pluginVars == <<settings, snippets, onloadPc, settingTab, readdirs, saves, calls, uncaught>>
vars == <<filename, raw, gen, settings, snippets, onloadPc, settingTab, readdirs,
          saves, calls, uncaught>>

(***************************************************************************)
(* Bounds of the model.                                                    *)
(***************************************************************************)
MaxItems == 3
MaxCalls == 2

(***************************************************************************)
(* JavaScript values and string operations.                                *)
(***************************************************************************)
Null == <<>>
Some(v) == <<v>>

SP == " "
QUOTE == "\""
NL == "\n"

IsWhitespace(c) == c \in {" ", "\t", "\r", "\n"}

Min(S) == CHOOSE x \in S : \A y \in S : x <= y
Max(S) == CHOOSE x \in S : \A y \in S : y <= x

\* s.substring(a, b): both indices clamped to 0..length, swapped when a > b.
Substring(s, a, b) ==
    LET ca == IF a < 0 THEN 0 ELSE IF a > Len(s) THEN Len(s) ELSE a
        cb == IF b < 0 THEN 0 ELSE IF b > Len(s) THEN Len(s) ELSE b
        lo == IF ca <= cb THEN ca ELSE cb
        hi == IF ca <= cb THEN cb ELSE ca
    IN  SubSeq(s, lo + 1, hi)

\* s.substring(a)
SubstringFrom(s, a) == Substring(s, a, Len(s))

\* s.lastIndexOf(c), 0-based, -1 when absent
LastIndexOf(s, c) ==
    LET hits == {i \in 1..Len(s) : s[i] = c}
    IN  IF hits = {} THEN -1 ELSE Max(hits) - 1

\* s.includes(c)
Includes(s, c) == \E i \in 1..Len(s) : s[i] = c

\* s.endsWith(suffix)
EndsWith(s, suffix) ==
    /\ Len(suffix) <= Len(s)
    /\ SubSeq(s, Len(s) - Len(suffix) + 1, Len(s)) = suffix

\* s.trimEnd()
TrimEnd(s) ==
    LET keep == {i \in 1..Len(s) : ~IsWhitespace(s[i])}
    IN  IF keep = {} THEN <<>> ELSE SubSeq(s, 1, Max(keep))

\* s.trim()
Trim(s) ==
    LET keep == {i \in 1..Len(s) : ~IsWhitespace(s[i])}
    IN  IF keep = {} THEN <<>> ELSE SubSeq(s, Min(keep), Max(keep))

\* s.replace(c, ""): the first occurrence only
RemoveFirst(s, c) ==
    LET hits == {i \in 1..Len(s) : s[i] = c}
    IN  IF hits = {} THEN s
        ELSE SubSeq(s, 1, Min(hits) - 1) \o SubSeq(s, Min(hits) + 1, Len(s))

\* s.split(sep): every piece between separators, empty pieces kept
RECURSIVE Split(_, _)
Split(s, sep) ==
    LET hits == {i \in 1..Len(s) : s[i] = sep}
    IN  IF hits = {} THEN <<s>>
        ELSE <<SubSeq(s, 1, Min(hits) - 1)>>
                 \o Split(SubSeq(s, Min(hits) + 1, Len(s)), sep)

\* s.split(sep, limit): the first `limit` pieces of s.split(sep); the rest is dropped
SplitLimit(s, sep, limit) ==
    LET all == Split(s, sep)
    IN  SubSeq(all, 1, IF Len(all) < limit THEN Len(all) ELSE limit)

\* the text of a sequence of lines, joined by newlines
RECURSIVE JoinLines(_)
JoinLines(ls) ==
    IF ls = <<>> THEN <<>>
    ELSE IF Len(ls) = 1 THEN ls[1]
    ELSE ls[1] \o <<NL>> \o JoinLines(Tail(ls))

KwSnippet == <<"s", "n", "i", "p", "p", "e", "t">>
KwGlobal == <<"g", "l", "o", "b", "a", "l">>
KwEnd == <<"e", "n", "d">>

(***************************************************************************)
(* handleSnippetOrGlobal, in the order of its statements.                  *)
(***************************************************************************)

\* line.split(" ", 2)
headTail(line) == SplitLimit(line, SP, 2)

\* lines 163-176: the options token and the tail without it
DetectOptions(tail) ==
    LET words == Split(tail, SP)
        n == Len(words)
    IN  IF /\ n > 2
           /\ ~Includes(words[n], QUOTE)
           /\ EndsWith(words[n - 1], <<QUOTE>>)
        THEN [options |-> words[n],
              tail |-> TrimEnd(Substring(tail, 0, Len(tail) - Len(words[n]) - 1))]
        ELSE [options |-> <<>>, tail |-> tail]

\* !context: null and the empty string are falsy
Falsy(context) == context = Null \/ context[1] = <<>>

\* lines 178-186: the context expression of an `e` snippet
DetectContext(options, context, tail) ==
    LET left == LastIndexOf(Substring(tail, 0, Len(tail) - 1), QUOTE)
    IN  IF Includes(options, "e") /\ Falsy(context) /\ left \notin {-1, 0}
        THEN [context |-> Some(RemoveFirst(SubstringFrom(tail, left), QUOTE)),
              tail |-> Substring(tail, 0, left)]
        ELSE [context |-> context, tail |-> tail]

\* lines 188-197: the trailing quoted description
DetectDescription(tail0) ==
    LET tail == Trim(tail0)
        left == LastIndexOf(Substring(tail, 0, Len(tail) - 1), QUOTE)
    IN  IF Len(tail) > 1 /\ EndsWith(tail, <<QUOTE>>) /\ left \notin {-1, 0}
        THEN [description |-> SubstringFrom(tail, left), tail |-> Substring(tail, 0, left)]
        ELSE [description |-> <<>>, tail |-> tail]

\* lines 199-211: the trigger, or the invalid trigger it is
DetectTrigger(tail, options) ==
    LET trigger == Trim(tail)
    IN  IF Len(trigger) > 1 \/ Includes(options, "r")
        THEN IF Len(trigger) > 0 /\ trigger[1] # trigger[Len(trigger)]
             THEN [ok |-> FALSE, trigger |-> trigger]
             ELSE [ok |-> TRUE, trigger |-> Substring(trigger, 1, Len(trigger) - 1)]
        ELSE [ok |-> TRUE, trigger |-> trigger]

\* lines 216-225: the loop over `lines`, from its first element
RECURSIVE CollectBody(_, _, _, _, _)
CollectBody(lines, i, end, content, currentLineNumber) ==
    IF i > Len(lines)
    THEN [foundEnd |-> FALSE, content |-> content, currentLineNumber |-> currentLineNumber]
    ELSE IF TrimEnd(lines[i]) = end
    THEN [foundEnd |-> TRUE,
          content |-> Substring(content, 0, Len(content) - 1),
          currentLineNumber |-> currentLineNumber]
    ELSE CollectBody(lines, i + 1, end, content \o lines[i], currentLineNumber + 1)

ErrorResult(text, end, trigger, head, lineNumber) ==
    [tag |-> "error", text |-> text, end |-> end, trigger |-> trigger, head |-> head,
     line |-> lineNumber, def |-> Null]

SnippetResult(def) ==
    [tag |-> "snippet", text |-> "", end |-> <<>>, trigger |-> <<>>, head |-> <<>>,
     line |-> 0, def |-> Some(def)]

ThrowResult ==
    [tag |-> "TypeError", text |-> "", end |-> <<>>, trigger |-> <<>>, head |-> <<>>,
     line |-> 0, def |-> Null]

\* new SnippetDefinition(...)
SnippetDefinition(priority, trigger, value, description, options, globals, location, context, actions) ==
    [priority |-> priority, trigger |-> trigger, value |-> value,
     description |-> description, options |-> options, globals |-> globals,
     location |-> location, context |-> context, actions |-> actions]

\* lines 234-261: the switch on head and the fall-through error.  pythonGlobals is
\* Null or Some(map); pythonGlobals[trigger].push on null, or on a key the map
\* lacks, is a TypeError.
DispatchBlock(head, trigger, content, description, options, pythonGlobals, location, context, preExpand, currentPriority, currentLineNumber) ==
    IF head = KwGlobal
    THEN IF pythonGlobals = Null \/ trigger \notin DOMAIN pythonGlobals[1]
         THEN ThrowResult
         ELSE ErrorResult("Invalid snippet type", <<>>, <<>>, head, currentLineNumber)
    ELSE IF head = KwSnippet
    THEN SnippetResult(SnippetDefinition(currentPriority, trigger, content, description,
                                         options, pythonGlobals, location, context,
                                         preExpand))
    ELSE ErrorResult("Invalid snippet type", <<>>, <<>>, head, currentLineNumber)

handleSnippetOrGlobal(file, line, currentLineNumber, lines, pythonGlobals, currentPriority, preExpand, context) ==
    LET parts == SplitLimit(line, SP, 2)
    IN  IF Len(parts) < 2 THEN ThrowResult  \* tail is undefined: tail.split throws
        ELSE
        LET head == parts[1]
            o == DetectOptions(parts[2])
            c == DetectContext(o.options, context, o.tail)
            d == DetectDescription(c.tail)
            t == DetectTrigger(d.tail, o.options)
            end == KwEnd \o head
            b == CollectBody(lines, 1, end, <<>>, currentLineNumber)
        IN  IF ~t.ok
            THEN ErrorResult("Invalid multiword trigger", <<>>, t.trigger, <<>>,
                             currentLineNumber)
            ELSE IF ~b.foundEnd
            THEN ErrorResult("Missing", end, t.trigger, <<>>, b.currentLineNumber)
            ELSE DispatchBlock(head, t.trigger, b.content, d.description, o.options,
                               pythonGlobals, <<file, currentLineNumber>>, c.context,
                               preExpand, currentPriority, b.currentLineNumber)

(***************************************************************************)
(* parseSnippets: a generator.  Its frame holds the locals of lines        *)
(* 138-142, the position of the for loop of line 264, what it has yielded  *)
(* and how it ended.                                                       *)
(***************************************************************************)
EmptyObject == <<>>

GenInit ==
    [pc |-> "loop", idx |-> 1,
     pythonGlobals |-> Null, currentLineNumber |-> 0, currentPriority |-> 0,
     actions |-> EmptyObject, context |-> Null,
     yielded |-> <<>>, returned |-> Null, thrown |-> ""]

\* raw.split("\n")
FileLines(text) == Split(text, NL)

\* line 265: !line.trim()
IsBlank(line) == Trim(line) = <<>>

\* lines 267-268: the first token is `snippet` or `global`
IsHeader(line) == headTail(line)[1] \in {KwSnippet, KwGlobal}

\* line 265: continue
BlankStep(g) == [g EXCEPT !.idx = @ + 1]

\* line 287, for a line that is no header
OtherStep(g) == [g EXCEPT !.idx = @ + 1, !.currentLineNumber = @ + 1]

\* lines 269-284: the handler's result is returned, never yielded; a TypeError
\* thrown by the handler leaves the generator before line 280
HeaderStep(file, lines, g) ==
    LET snippet == handleSnippetOrGlobal(file, lines[g.idx], g.currentLineNumber, lines,
                                         g.pythonGlobals, g.currentPriority, g.actions,
                                         g.context)
    IN  IF snippet.tag = "TypeError"
        THEN [g EXCEPT !.pc = "thrown", !.thrown = "TypeError"]
        ELSE [g EXCEPT !.pc = "returned", !.actions = EmptyObject, !.context = Null,
                       !.returned = Some(snippet)]

\* line 289: the loop is exhausted
EndStep(g) == [g EXCEPT !.pc = "returned"]

GenStep(file, lines, g) ==
    IF g.idx > Len(lines) THEN EndStep(g)
    ELSE IF IsBlank(lines[g.idx]) THEN BlankStep(g)
    ELSE IF IsHeader(lines[g.idx]) THEN HeaderStep(file, lines, g)
    ELSE OtherStep(g)

RECURSIVE RunGen(_, _, _)
RunGen(file, lines, g) ==
    IF g.pc # "loop" THEN g ELSE RunGen(file, lines, GenStep(file, lines, g))

\* the generator run to its end on one file
parseSnippets(file, text) == RunGen(file, FileLines(text), GenInit)

\* header lines of the form snippet "trig" "desc"
Quoted(s) == <<QUOTE>> \o s \o <<QUOTE>>
SnippetHeader(trig, desc) == KwSnippet \o <<SP>> \o Quoted(trig) \o <<SP>> \o Quoted(desc)

(***************************************************************************)
(* The plugin: settings, the disk it reads, and the catalogue it builds.   *)
(***************************************************************************)
DEFAULT_SETTINGS == [snippetsDir |-> "~/.config/nvim/UltiSnips/"]

\* The directories a user may configure.  "~/missing/" cannot be read.
DirChoices == {"~/.config/nvim/UltiSnips/", "~/snips/", "~/broken/", "~/missing/"}

ExtSnippets == <<".", "s", "n", "i", "p", "p", "e", "t", "s">>
NameA == <<"a">> \o ExtSnippets
NameB == <<"b">> \o ExtSnippets
NameG == <<"g">> \o ExtSnippets
NameDot == ExtSnippets
NameDotDot == ExtSnippets \o ExtSnippets
NameNotes == <<"n", "o", "t", "e", "s", ".", "t", "x", "t">>

TextSnippet ==
    JoinLines(<<SnippetHeader(<<"t", "r">>, <<"d">>), <<"b", "o">>, KwEnd \o KwSnippet>>)
TextTwo ==
    JoinLines(<<KwSnippet \o <<SP, "x">>, <<"b", "o">>, KwEnd \o KwSnippet,
                KwSnippet \o <<SP, "y">>, <<"b", "o">>, KwEnd \o KwSnippet>>)
TextGlobal ==
    JoinLines(<<KwGlobal \o <<SP, "g">>, <<"b", "o">>, KwEnd \o KwGlobal>>)
TextPlain == <<"b", "o">>

\* The disk, keyed by the configured path (expandHomeDir resolves a path to the
\* same directory each time): Null for a directory readdir fails on, else
\* Some(name -> text).  Its content does not change during a run.
Disk(dir) ==
    CASE dir = "~/.config/nvim/UltiSnips/" ->
            Some((NameA :> TextSnippet) @@ (NameB :> TextTwo))
      [] dir = "~/snips/" ->
            Some((NameDot :> TextSnippet) @@ (NameDotDot :> TextTwo) @@ (NameNotes :> TextPlain))
      [] dir = "~/broken/" ->
            Some((NameA :> TextSnippet) @@ (NameG :> TextGlobal))
      [] OTHER -> Null

\* the orders in which readdir may list a directory
Listings(names) ==
    {l \in [1..Cardinality(names) -> names] :
        \A i, j \in 1..Cardinality(names) : i # j => l[i] # l[j]}

\* path.join(snippetDir, f)
PathJoin(dir, f) == <<dir, f>>

\* f.replace(/^(.+)\..+$/, "$1"): cut at the last dot that has a character on
\* both sides; a name without one is kept whole
GroupKey(f) ==
    LET dots == {i \in 2..(Len(f) - 1) : f[i] = "."}
    IN  IF dots = {} THEN f ELSE SubSeq(f, 1, Max(dots) - 1)

\* Object.fromEntries: the last entry of a key wins
FromEntries(entries) ==
    [k \in {entries[i][1] : i \in 1..Len(entries)} |->
        entries[Max({i \in 1..Len(entries) : entries[i][1] = k})][2]]

IsSnippetFile(f) == EndsWith(f, ExtSnippets)

\* A build that keeps the groups parsed before the first file that throws.
BuildCatalogueUpToThrow(dir, files) ==
    LET snippetFiles == SelectSeq(files, IsSnippetFile)
        parsed == [i \in 1..Len(snippetFiles) |->
                      parseSnippets(PathJoin(dir, snippetFiles[i]),
                                    Disk(dir)[1][snippetFiles[i]])]
        bad == {i \in 1..Len(snippetFiles) : parsed[i].pc = "thrown"}
        n == IF bad = {} THEN Len(snippetFiles) ELSE Min(bad) - 1
    IN  [thrown |-> FALSE,
         catalogue |-> Some(FromEntries([i \in 1..n |->
                              <<GroupKey(snippetFiles[i]), parsed[i].yielded>>]))]

\* lines 108-121: filter, map every file through the parser (the spread collects
\* what the generator yields), fromEntries.  A parser that throws throws out of
\* the map, and nothing is built.
BuildCatalogue(dir, files) ==
    LET snippetFiles == SelectSeq(files, IsSnippetFile)
        parsed == [i \in 1..Len(snippetFiles) |->
                      parseSnippets(PathJoin(dir, snippetFiles[i]),
                                    Disk(dir)[1][snippetFiles[i]])]
    IN  IF \E i \in 1..Len(snippetFiles) : parsed[i].pc = "thrown"
        THEN [thrown |-> TRUE, catalogue |-> Null]
        ELSE [thrown |-> FALSE,
              catalogue |-> Some(FromEntries([i \in 1..Len(snippetFiles) |->
                                   <<GroupKey(snippetFiles[i]), parsed[i].yielded>>]))]

\* A store that adds the new groups to the ones already there.
InstallPatched(previous, catalogue) ==
    IF previous = Null THEN catalogue
    ELSE Some([k \in DOMAIN previous[1] \cup DOMAIN catalogue[1] |->
                 IF k \in DOMAIN catalogue[1] THEN catalogue[1][k] ELSE previous[1][k]])

\* line 109: this.snippets = ...
Install(previous, catalogue) == catalogue

RECURSIVE SumLengths(_, _)
SumLengths(catalogue, keys) ==
    IF keys = {} THEN 0
    ELSE LET k == CHOOSE x \in keys : TRUE
         IN  Len(catalogue[k]) + SumLengths(catalogue, keys \ {k})

\* lines 123-126
loadedSnippetsCount(catalogue) == SumLengths(catalogue, DOMAIN catalogue)
loadedSnippetsFiles(catalogue) == Cardinality(DOMAIN catalogue)

\* lines 127-133, and the TypeError of Object.values(undefined) at line 123
Report(stored) ==
    IF stored = Null
    THEN [kind |-> "TypeError", count |-> 0, files |-> 0, countPlural |-> "", filesPlural |-> ""]
    ELSE [kind |-> "Notice",
          count |-> loadedSnippetsCount(stored[1]),
          files |-> loadedSnippetsFiles(stored[1]),
          countPlural |-> IF loadedSnippetsCount(stored[1]) = 1 THEN "" ELSE "s",
          filesPlural |-> IF loadedSnippetsFiles(stored[1]) = 1 THEN "" ELSE "s"]

\* Object.assign({}, DEFAULT_SETTINGS, data)
AssignSettings(data) ==
    IF data = Null THEN DEFAULT_SETTINGS ELSE [snippetsDir |-> data[1].snippetsDir]

\* what loadData may return: nothing saved yet, or a saved directory
StoredData == {Null} \cup {Some([snippetsDir |-> d]) : d \in DirChoices}

PluginIdle ==
    /\ settings = Null
    /\ snippets = Null
    /\ onloadPc = "start"
    /\ settingTab = FALSE
    /\ readdirs = {}
    /\ saves = 0
    /\ calls = <<>>
    /\ uncaught = <<>>

(***************************************************************************)
(* The parser's specification: a file text drawn from the sequences of at  *)
(* most MaxItems items of ItemChoices, and the generator stepped through   *)
(* it one loop iteration at a time.                                        *)
(***************************************************************************)
Trigs == {<<"t", "r">>}
Descs == {<<"d">>}
Bodies == {<<"b", "o">>}

LineSnippetOpt ==  \* snippet "t" "d" rA
    <<"s", "n", "i", "p", "p", "e", "t", " ", "\"", "t", "\"", " ", "\"", "d", "\"", " ", "r", "A">>
LineSnippetX ==    \* snippet x
    <<"s", "n", "i", "p", "p", "e", "t", " ", "x">>
LineSnippetAbc ==  \* snippet abc
    <<"s", "n", "i", "p", "p", "e", "t", " ", "a", "b", "c">>
LineSnippetBare == \* snippet
    <<"s", "n", "i", "p", "p", "e", "t">>
LineGlobalG ==     \* global g
    <<"g", "l", "o", "b", "a", "l", " ", "g">>
LineEndSnippet ==  \* endsnippet
    <<"e", "n", "d", "s", "n", "i", "p", "p", "e", "t">>
LineEndGlobal ==   \* endglobal
    <<"e", "n", "d", "g", "l", "o", "b", "a", "l">>
LinePriority5 ==   \* priority 5
    <<"p", "r", "i", "o", "r", "i", "t", "y", " ", "5">>
LineEmpty == <<>>

LineChoices ==
    {SnippetHeader(t, d) : t \in Trigs, d \in Descs}
    \cup Bodies
    \cup {LineSnippetOpt, LineSnippetX, LineSnippetAbc, LineSnippetBare, LineGlobalG,
          LineEndSnippet, LineEndGlobal, LinePriority5, LineEmpty}

\* whole blocks: header, body, terminator
BlockChoices ==
    {<<SnippetHeader(t, d), b, LineEndSnippet>> : t \in Trigs, d \in Descs, b \in Bodies}
    \cup {<<LineSnippetX, b, LineEndSnippet>> : b \in Bodies}
    \cup {<<LineGlobalG, b, LineEndGlobal>> : b \in Bodies}

\* a file is made of at most MaxItems items, each one line or one whole block
ItemChoices == {<<l>> : l \in LineChoices} \cup BlockChoices

RECURSIVE Flatten(_)
Flatten(items) == IF items = <<>> THEN <<>> ELSE items[1] \o Flatten(Tail(items))

FileTexts ==
    {JoinLines(Flatten(items)) : items \in UNION {[1..n -> ItemChoices] : n \in 0..MaxItems}}

ParsedPath == <<"a", ".", "s", "n", "i", "p", "p", "e", "t", "s">>

lines == FileLines(raw)

Init ==
    /\ filename = ParsedPath
    /\ raw \in FileTexts
    /\ gen = GenInit
    /\ PluginIdle

SkipBlank ==
    /\ gen.pc = "loop"
    /\ gen.idx <= Len(lines)
    /\ IsBlank(lines[gen.idx])
    /\ gen' = BlankStep(gen)
    /\ UNCHANGED <<filename, raw>>
    /\ UNCHANGED pluginVars

Header ==
    /\ gen.pc = "loop"
    /\ gen.idx <= Len(lines)
    /\ ~IsBlank(lines[gen.idx])
    /\ IsHeader(lines[gen.idx])
    /\ gen' = HeaderStep(filename, lines, gen)
    /\ UNCHANGED <<filename, raw>>
    /\ UNCHANGED pluginVars

OtherLine ==
    /\ gen.pc = "loop"
    /\ gen.idx <= Len(lines)
    /\ ~IsBlank(lines[gen.idx])
    /\ ~IsHeader(lines[gen.idx])
    /\ gen' = OtherStep(gen)
    /\ UNCHANGED <<filename, raw>>
    /\ UNCHANGED pluginVars

Exhausted ==
    /\ gen.pc = "loop"
    /\ gen.idx > Len(lines)
    /\ gen' = EndStep(gen)
    /\ UNCHANGED <<filename, raw>>
    /\ UNCHANGED pluginVars

Next == SkipBlank \/ Header \/ OtherLine \/ Exhausted

Spec == Init /\ [][Next]_vars

(***************************************************************************)
(* Properties of the parser, checked under Spec.                           *)
(***************************************************************************)

\* the snippet definitions a finished run produced: yielded, or handed back as
\* the generator's return value
Produced ==
    {gen.yielded[i] : i \in 1..Len(gen.yielded)}
    \cup (IF gen.returned # Null /\ gen.returned[1].tag = "snippet"
          THEN {gen.returned[1].def[1]} ELSE {})

\* line h is the first header line of the file
FirstHeaderAt(h) == IsHeader(lines[h]) /\ \A j \in 1..(h - 1) : ~IsHeader(lines[j])

SnippetBlocks == {b \in BlockChoices : b[1] # LineGlobalG}

\* headers whose trigger is plain to read: <<header line, trigger, keyword>>
PlainHeaders ==
    {<<LineSnippetX, <<"x">>, KwSnippet>>, <<LineGlobalG, <<"g">>, KwGlobal>>}
    \cup {<<SnippetHeader(t, d), t, KwSnippet>> : t \in Trigs, d \in Descs}

(* C1: a file that is one well-formed block, snippet "trig" "desc" / BODY /
   endsnippet, parses to exactly one record, with that trigger, that
   description and that body. *)
C1_SingleBlockYieldsRecord ==
    \A t \in Trigs, d \in Descs, b \in Bodies :
        (raw = JoinLines(<<SnippetHeader(t, d), b, LineEndSnippet>>) /\ gen.pc # "loop")
        => /\ gen.pc = "returned"
           /\ Len(gen.yielded) = 1
           /\ gen.yielded[1].trigger = t
           /\ gen.yielded[1].description = d
           /\ gen.yielded[1].value = b

(* C2: a completed global block gives no record and adds its body to the
   globals of its key; a snippet record declared after it carries that body,
   a snippet record declared before it does not. *)
C2_GlobalsVisibleLater ==
    \A gb \in Bodies, b \in Bodies :
        LET G == <<LineGlobalG, gb, LineEndGlobal>>
            S == <<LineSnippetX, b, LineEndSnippet>>
            Carries(rec) == /\ rec.globals # Null
                            /\ <<"g">> \in DOMAIN rec.globals[1]
                            /\ rec.globals[1][<<"g">>] = <<gb>>
        IN  gen.pc # "loop" =>
              /\ raw = JoinLines(G) => (gen.pc = "returned" /\ gen.yielded = <<>>)
              /\ raw = JoinLines(G \o S) =>
                    (/\ gen.pc = "returned"
                     /\ Len(gen.yielded) = 1
                     /\ Carries(gen.yielded[1]))
              /\ raw = JoinLines(S \o G) =>
                    (/\ gen.pc = "returned"
                     /\ Len(gen.yielded) = 1
                     /\ ~Carries(gen.yielded[1]))

(* C3: priority is sticky: `priority 5` followed by two snippet blocks gives
   two records of priority 5, and every record of a file without a priority
   line has priority 0. *)
C3_PrioritySticky ==
    gen.pc # "loop" =>
      /\ \A b1 \in SnippetBlocks, b2 \in SnippetBlocks :
            raw = JoinLines(<<LinePriority5>> \o b1 \o b2) =>
               /\ Len(gen.yielded) = 2
               /\ \A i \in 1..Len(gen.yielded) : gen.yielded[i].priority = 5
      /\ (\A j \in 1..Len(lines) : lines[j] # LinePriority5) =>
            \A i \in 1..Len(gen.yielded) : gen.yielded[i].priority = 0

(* C4: a header with no end<keyword> line after it makes the parse end in a
   missing-end-marker error that names the terminator and the trigger and
   carries the number of the last line scanned, the file's last line; no
   record is produced. *)
C4_MissingEndMarker ==
    gen.pc # "loop" =>
      \A h \in 1..Len(lines), e \in PlainHeaders :
         (/\ lines[h] = e[1]
          /\ FirstHeaderAt(h)
          /\ \A j \in (h + 1)..Len(lines) : TrimEnd(lines[j]) # KwEnd \o e[3])
         => /\ gen.pc = "returned"
            /\ gen.returned # Null
            /\ gen.returned[1].tag = "error"
            /\ gen.returned[1].text = "Missing"
            /\ gen.returned[1].end = KwEnd \o e[3]
            /\ gen.returned[1].trigger = e[2]
            /\ gen.returned[1].line = Len(lines)
            /\ Produced = {}

(* C5: the header `snippet abc` ends the parse in an invalid-multiword-trigger
   error that carries the 1-based number of the header's line, whatever
   precedes it; the header `snippet x` raises no such error and keeps the
   trigger x. *)
C5_InvalidTriggerLine ==
    gen.pc # "loop" =>
      \A h \in 1..Len(lines) :
         /\ (lines[h] = LineSnippetAbc /\ FirstHeaderAt(h))
            => /\ gen.returned # Null
               /\ gen.returned[1].tag = "error"
               /\ gen.returned[1].text = "Invalid multiword trigger"
               /\ gen.returned[1].line = h
         /\ (lines[h] = LineSnippetX /\ FirstHeaderAt(h))
            => /\ ~(gen.returned # Null
                    /\ gen.returned[1].text = "Invalid multiword trigger")
               /\ \A def \in Produced : def.trigger = <<"x">>

(* C9: the scan resumes after a block's terminator: a file of k consecutive
   well-formed snippet blocks gives k results, in file order, each with the
   body that follows its own header. *)
C9_ScanResumesAfterBlock ==
    gen.pc # "loop" =>
      \A k \in 1..MaxItems :
         \A blocks \in [1..k -> SnippetBlocks] :
            raw = JoinLines(Flatten(blocks)) =>
               /\ gen.pc = "returned"
               /\ Len(gen.yielded) = k
               /\ \A i \in 1..Len(gen.yielded) : gen.yielded[i].value = blocks[i][2]

(* C10: the header `snippet "t" "d" rA` gives a definition with options rA,
   trigger t; a header of two quoted words and no third token gives empty
   options. *)
C10_OptionsDetected ==
    gen.pc # "loop" =>
      \A b \in Bodies :
         /\ raw = JoinLines(<<LineSnippetOpt, b, LineEndSnippet>>) =>
               /\ Produced # {}
               /\ \A def \in Produced : def.options = <<"r", "A">> /\ def.trigger = <<"t">>
         /\ \A t \in Trigs, d \in Descs :
               raw = JoinLines(<<SnippetHeader(t, d), b, LineEndSnippet>>) =>
                  \A def \in Produced : def.options = <<>>

(***************************************************************************)
(* The plugin's specification.                                             *)
(***************************************************************************)

\* loadSnippets with the directory `dir`, lines 104-133: the readdir call is
\* queued; `await` of its undefined result resumes the function in a microtask,
\* before any callback can run; the counts are read from this.snippets as it is
\* then.  The call is appended to `calls`.
loadSnippets(dir) ==
    /\ readdirs' = readdirs \cup {Len(calls) + 1}
    /\ calls' = Append(calls, [dir |-> dir, report |-> Report(snippets),
                               callback |-> "pending", files |-> <<>>, built |-> Null])

\* whether a loadSnippets call made now rejects
Rejects == Report(snippets).kind = "TypeError"

\* lines 81-82: onload calls loadSettings, which awaits loadData
OnloadBegin ==
    /\ onloadPc = "start"
    /\ onloadPc' = "loadSettings"
    /\ UNCHANGED <<settings, snippets, settingTab, readdirs, saves, calls, uncaught>>
    /\ UNCHANGED parserVars

\* lines 92-96 and 83-86: the data arrives, loadSnippets runs, and the settings
\* tab is added unless loadSnippets rejected
OnloadResume ==
    /\ onloadPc = "loadSettings"
    /\ \E data \in StoredData :
          /\ settings' = AssignSettings(data)
          /\ loadSnippets(settings'.snippetsDir)
    /\ onloadPc' = IF Rejects THEN "rejected" ELSE "done"
    /\ settingTab' = ~Rejects
    /\ UNCHANGED <<snippets, saves, uncaught>>
    /\ UNCHANGED parserVars

\* lines 314-316: the text field's handler, up to the await of saveSettings.  The
\* host calls it once onload has ended; the model does not ask that the tab was
\* added, so it allows every call the host can make.
OnChange ==
    /\ onloadPc \in {"done", "rejected"}
    /\ Len(calls) + saves < MaxCalls
    /\ \E value \in DirChoices : settings' = [snippetsDir |-> value]
    /\ saves' = saves + 1
    /\ UNCHANGED <<snippets, onloadPc, settingTab, readdirs, calls, uncaught>>
    /\ UNCHANGED parserVars

\* line 317: saveData has finished, loadSnippets runs with the settings as they
\* are now
OnChangeResume ==
    /\ saves > 0
    /\ saves' = saves - 1
    /\ loadSnippets(settings.snippetsDir)
    /\ UNCHANGED <<settings, snippets, onloadPc, settingTab, uncaught>>
    /\ UNCHANGED parserVars

\* line 107: the callback of a directory that cannot be read throws err
ReaddirFails ==
    /\ \E id \in readdirs :
          /\ Disk(calls[id].dir) = Null
          /\ readdirs' = readdirs \ {id}
          /\ calls' = [calls EXCEPT ![id].callback = "threw"]
          /\ uncaught' = Append(uncaught, "err")
    /\ UNCHANGED <<settings, snippets, onloadPc, settingTab, saves>>
    /\ UNCHANGED parserVars

\* lines 108-121: the callback of a directory listed in some order
ReaddirLists ==
    /\ \E id \in readdirs :
          /\ Disk(calls[id].dir) # Null
          /\ \E files \in Listings(DOMAIN Disk(calls[id].dir)[1]) :
                LET b == BuildCatalogue(calls[id].dir, files)
                IN  /\ readdirs' = readdirs \ {id}
                    /\ IF b.thrown
                       THEN /\ calls' = [calls EXCEPT ![id].callback = "threw",
                                                      ![id].files = files]
                            /\ uncaught' = Append(uncaught, "TypeError")
                            /\ UNCHANGED snippets
                       ELSE /\ calls' = [calls EXCEPT ![id].callback = "installed",
                                                      ![id].files = files,
                                                      ![id].built = b.catalogue]
                            /\ snippets' = Install(snippets, b.catalogue)
                            /\ UNCHANGED uncaught
    /\ UNCHANGED <<settings, onloadPc, settingTab, saves>>
    /\ UNCHANGED parserVars

InitLoad ==
    /\ filename = ParsedPath
    /\ raw = <<>>
    /\ gen = GenInit
    /\ PluginIdle

NextLoad ==
    \/ OnloadBegin
    \/ OnloadResume
    \/ OnChange
    \/ OnChangeResume
    \/ ReaddirFails
    \/ ReaddirLists

SpecLoad == InitLoad /\ [][NextLoad]_vars

(***************************************************************************)
(* Properties of the load path, checked under SpecLoad.                    *)
(***************************************************************************)

SnippetFilesOf(dir) == {f \in DOMAIN Disk(dir)[1] : IsSnippetFile(f)}

\* `catalogue` is the whole result of loading `dir`: one group per snippet file
\* of the directory, each holding the records of a file of that group
IsCompleteResultOf(catalogue, dir) ==
    /\ Disk(dir) # Null
    /\ DOMAIN catalogue = {GroupKey(f) : f \in SnippetFilesOf(dir)}
    /\ \A k \in DOMAIN catalogue :
          \E f \in SnippetFilesOf(dir) :
             /\ GroupKey(f) = k
             /\ catalogue[k] = parseSnippets(PathJoin(dir, f), Disk(dir)[1][f]).yielded

(* C6: every loadSnippets call reports the counts of the catalogue its own
   readdir callback installed, reading them after that callback ran; for a
   directory that cannot be read, it reports the directory-read error. *)
C6_ReportsOwnCatalogue ==
    \A i \in 1..Len(calls) :
       IF Disk(calls[i].dir) = Null
       THEN calls[i].report.kind = "DirectoryUnreadable"
       ELSE /\ calls[i].callback # "pending"
            /\ calls[i].callback = "installed" =>
                  /\ calls[i].report.kind = "Notice"
                  /\ calls[i].report.count = loadedSnippetsCount(calls[i].built[1])
                  /\ calls[i].report.files = loadedSnippetsFiles(calls[i].built[1])

(* C7: the catalogue does not depend on the order of the listing: two loads of
   one directory, listed in any two orders, build the same mapping from group
   key to records, and the records of a group are those of its file parsed on
   its own. *)
C7_OrderIndependent ==
    /\ \A i \in 1..Len(calls), j \in 1..Len(calls) :
          (/\ calls[i].dir = calls[j].dir
           /\ calls[i].callback # "pending"
           /\ calls[j].callback # "pending")
          => /\ calls[i].callback = calls[j].callback
             /\ calls[i].built = calls[j].built
    /\ \A i \in 1..Len(calls) :
          calls[i].built # Null =>
             \A f \in SnippetFilesOf(calls[i].dir) :
                \E g \in SnippetFilesOf(calls[i].dir) :
                   /\ GroupKey(f) \in DOMAIN calls[i].built[1]
                   /\ GroupKey(g) = GroupKey(f)
                   /\ calls[i].built[1][GroupKey(f)]
                        = parseSnippets(PathJoin(calls[i].dir, g),
                                        Disk(calls[i].dir)[1][g]).yielded

\* two loads of one directory, listed in different orders, have both installed
C7_Witness ==
    \E i \in 1..Len(calls), j \in 1..Len(calls) :
       /\ calls[i].dir = calls[j].dir
       /\ calls[i].callback = "installed"
       /\ calls[j].callback = "installed"
       /\ calls[i].files # calls[j].files
       /\ Cardinality(DOMAIN calls[i].built[1]) >= 2

(* C8: the stored catalogue is at every moment absent or the whole result of
   one single load: never groups of two loads mixed, never a part of one. *)
C8_WholesaleCatalogue ==
    \/ snippets = Null
    \/ \E i \in 1..Len(calls) :
          /\ calls[i].callback = "installed"
          /\ IsCompleteResultOf(snippets[1], calls[i].dir)

\* two loads of directories with different groups overlapped, and the callback
\* of the first ran last: the stored catalogue is the first load's
C8_Witness ==
    /\ Len(calls) >= 2
    /\ calls[1].callback = "installed"
    /\ calls[2].callback = "installed"
    /\ DOMAIN calls[1].built[1] # DOMAIN calls[2].built[1]
    /\ snippets = calls[1].built
    /\ snippets # calls[2].built

====
